---- MODULE Spec2Model ----
(***************************************************************************)
(* The inference fallback engine of SEO Vision: analyzeImageWithAI and     *)
(* applyPostProcessing (services/aiService.ts, the "Robust Multi-Provider   *)
(* Engine" revision).  One resolve call walks the static strategy, and     *)
(* for every stored key of the step's provider makes one provider call,    *)
(* returning on the first response it can parse.                           *)
(*                                                                         *)
(* Text is modelled as a sequence: a title, key, prefix or suffix is a     *)
(* sequence of one-character strings; a provider's reply text is a         *)
(* sequence of tokens (code-fence markers, white space, prose, one         *)
(* serialized JSON value); an error message is a sequence of string parts. *)
(***************************************************************************)
EXTENDS Integers, Sequences, FiniteSets, TLC

VARIABLES
    images,        \* App: the React state `images`, a list of OptimizedImage
    status,        \* App: the React state `status`, a ProcessingStatus
    model,         \* App: constraints.model, the selected model
    batch,         \* App: the activation of processBatch
    runs,          \* App: the activations of processSingle that have not ended
    clicks,        \* App: the clicks on Generate SEO and Regenerate so far
    uploads,       \* App: the files uploaded so far
    cancelled,     \* the caller's deadline has passed or its signal has fired
    image,         \* the image (base64Data) of the running call
    other,         \* a second call, suspended at its await or not yet run
    rawData,       \* the parsed data handed to applyPostProcessing alone
    keys,          \* settings.keys: provider -> stored key strings
    constraints,   \* the StockConstraints of the call
    stepIdx,       \* position of `for (const step of strategy)`
    keyIdx,        \* position of `for (const apiKey of keys)`
    pc,            \* "for_step" | "for_key" | "await" | "returned" | "thrown"
    lastError,     \* the local `lastError`
    inflight,      \* provider calls issued and not yet settled
    calls,         \* every provider call issued so far, in order
    replies,       \* the replies of the settled calls, in order
    warnLog,       \* the console.warn lines, in order
    result,        \* the value the promise resolved with
    error          \* the message of the Error the promise rejected with

uiVars == <<images, status, model, batch, runs, clicks, uploads>>

engineVars == <<cancelled, image, other, rawData, keys, constraints, stepIdx, keyIdx, pc,
                lastError, inflight, calls, replies, warnLog, result, error>>

vars == <<uiVars, cancelled, image, other, rawData, keys, constraints, stepIdx, keyIdx, pc,
          lastError, inflight, calls, replies, warnLog, result, error>>

----------------------------------------------------------------------------
(* Bounds *)

\* total number of key strings stored over all providers
MaxKeys == 2

\* longest title, and largest maxTitleChars, handed to applyPostProcessing
MaxTitleLen == 4

\* longest keyword list, and largest keywordCount, handed to it
MaxKeywords == 3

----------------------------------------------------------------------------
(* Strings *)

WhiteSpace == {" ", "\n"}

RECURSIVE trimStart(_)
trimStart(s) ==
    IF s # <<>> /\ Head(s) \in WhiteSpace THEN trimStart(Tail(s)) ELSE s

RECURSIVE trimEnd(_)
trimEnd(s) ==
    IF s # <<>> /\ s[Len(s)] \in WhiteSpace
    THEN trimEnd(SubSeq(s, 1, Len(s) - 1))
    ELSE s

\* String.prototype.trim
trim(s) == trimEnd(trimStart(s))

\* String.prototype.substring(0, n) / Array.prototype.slice(0, n), n >= 0
substring(s, n) == SubSeq(s, 1, IF n < Len(s) THEN n ELSE Len(s))

----------------------------------------------------------------------------
(* types.ts *)

AIProvider == {"groq", "openai", "gemini", "deepseek", "openrouter"}

\* PLATFORM_FIELDS[platform].description
PLATFORM_FIELDS ==
    [ Generic      |-> [title |-> TRUE, description |-> TRUE,  keywords |-> TRUE],
      Shutterstock |-> [title |-> TRUE, description |-> TRUE,  keywords |-> TRUE],
      AdobeStock   |-> [title |-> TRUE, description |-> FALSE, keywords |-> TRUE],
      Freepik      |-> [title |-> TRUE, description |-> FALSE, keywords |-> TRUE],
      Vecteezy     |-> [title |-> TRUE, description |-> FALSE, keywords |-> TRUE],
      Pond5        |-> [title |-> TRUE, description |-> TRUE,  keywords |-> TRUE] ]

\* the static attempt plan
strategy ==
    << [model |-> "gemini-2.0-flash",             provider |-> "gemini"],
       [model |-> "llama-3.2-90b-vision-preview", provider |-> "groq"],
       [model |-> "gpt-4o-mini",                  provider |-> "openai"],
       [model |-> "google/gemini-2.0-flash-001",  provider |-> "openrouter"],
       [model |-> "deepseek-chat",                provider |-> "deepseek"],
       [model |-> "gpt-4o",                       provider |-> "openai"] >>

\* step.provider.toUpperCase()
toUpperCase ==
    [ groq |-> "GROQ", openai |-> "OPENAI", gemini |-> "GEMINI",
      deepseek |-> "DEEPSEEK", openrouter |-> "OPENROUTER" ]

----------------------------------------------------------------------------
(* SEOData and the JSON values a reply can carry *)

\* a parsed JSON value: kind "object" (with or without each field) or "null"
Obj(hasTitle, title, hasKeywords, keywords, hasDescription, description) ==
    [ kind |-> "object",
      hasTitle |-> hasTitle, title |-> title,
      hasKeywords |-> hasKeywords, keywords |-> keywords,
      hasDescription |-> hasDescription, description |-> description ]

JsonNull == [ Obj(FALSE, <<>>, FALSE, <<>>, FALSE, <<>>) EXCEPT !.kind = "null" ]

\* reply text tokens
Tok(t, v) == [t |-> t, v |-> v]
FenceJson == Tok("fence_json", JsonNull)   \* three backquotes followed by json
Fence     == Tok("fence", JsonNull)        \* three backquotes
NewLine   == Tok("\n", JsonNull)
Prose     == Tok("prose", JsonNull)
Json(v)   == Tok("json", v)


----------------------------------------------------------------------------
(* One attempt: the body of the try block *)

\* a thrown Error with message m / a value
Throw(m) == [ok |-> FALSE, message |-> m, value |-> JsonNull]
Value(v) == [ok |-> TRUE, message |-> "", value |-> v]

\* a provider's reply.  kind "reject": the awaited promise (fetch, or the
\* SDK's generateContent) rejects with `message`.  kind "reply": fetch
\* resolves with an HTTP response (status, statusText, a body that is JSON or
\* not, its error.message, its choices[0].message.content), or the SDK
\* resolves with a response whose .text is `text` (absent: hasText FALSE).
\* bodyNull: the body is the JSON value null.
Reject(code, message) ==
    [ kind |-> "reject", message |-> message, status |-> code, statusText |-> "",
      bodyJson |-> FALSE, bodyNull |-> FALSE, errMessage |-> "", hasChoices |-> FALSE,
      hasText |-> FALSE, text |-> <<>> ]

HttpError(code, statusText, bodyJson, errMessage) ==
    [ Reject(code, "") EXCEPT !.kind = "reply", !.statusText = statusText,
                                !.bodyJson = bodyJson, !.errMessage = errMessage ]

HttpErrorNull(code, statusText) ==
    [ HttpError(code, statusText, TRUE, "") EXCEPT !.bodyNull = TRUE ]

Reply(hasText, text) ==
    [ Reject(200, "") EXCEPT !.kind = "reply", !.statusText = "OK",
                             !.bodyJson = TRUE, !.hasChoices = TRUE,
                             !.hasText = hasText, !.text = text ]

\* Response.ok
ok(r) == r.status \in 200..299

\* rawContent.replace(/<fence>/g, ''): every token `tok` removed
RECURSIVE replace(_, _)
replace(text, tok) ==
    IF text = <<>> THEN <<>>
    ELSE IF Head(text) = tok THEN replace(Tail(text), tok)
         ELSE <<Head(text)>> \o replace(Tail(text), tok)

RECURSIVE trimTokStart(_)
trimTokStart(text) ==
    IF text # <<>> /\ Head(text) = NewLine THEN trimTokStart(Tail(text)) ELSE text

RECURSIVE trimTokEnd(_)
trimTokEnd(text) ==
    IF text # <<>> /\ text[Len(text)] = NewLine
    THEN trimTokEnd(SubSeq(text, 1, Len(text) - 1))
    ELSE text

\* .trim() of a reply text
trimText(text) == trimTokEnd(trimTokStart(text))

\* a faulty variant of cleanedJson: the fence markers are left in
cleanedJsonTrimOnly(rawContent) == trimText(rawContent)

\* rawContent.replace(/<fence>json/g, '').replace(/<fence>/g, '').trim()
cleanedJson(rawContent) == trimText(replace(replace(rawContent, FenceJson), Fence))

\* JSON.parse: white space around one JSON value is accepted, nothing else
JSONparse(text) ==
    LET t == trimText(text)
    IN  IF Len(t) = 1 /\ t[1].t = "json"
        THEN Value(t[1].v)
        ELSE Throw("Unexpected token in JSON")

\* data.title.trim() throws on null and on an object without title
PostProcessingThrows(data) == data.kind # "object" \/ ~data.hasTitle

\* faulty variants of truncateTitle: an ellipsis takes the place of the
\* last three characters, and the cut is made at maxTitleChars
truncateTitleEllipsis(title, c) ==
    IF Len(title) > c.maxTitleChars
    THEN substring(title, c.maxTitleChars - 3) \o <<".", ".", ".">>
    ELSE title

truncateTitleAtMax(title, c) ==
    IF Len(title) > c.maxTitleChars
    THEN trim(substring(title, c.maxTitleChars))
    ELSE title

\* the title after `if (title.length > constraints.maxTitleChars)`
truncateTitle(title, c) ==
    IF Len(title) > c.maxTitleChars
    THEN trim(substring(title, c.maxTitleChars - 1))
    ELSE title

\* a faulty variant of applyPrefix: no space after the prefix
applyPrefixNoSpace(title, c) ==
    IF c.prefixEnabled /\ c.prefix # <<>>
    THEN trim(c.prefix) \o title
    ELSE title

\* `if (constraints.prefixEnabled && constraints.prefix)`
applyPrefix(title, c) ==
    IF c.prefixEnabled /\ c.prefix # <<>>
    THEN trim(c.prefix) \o <<" ">> \o title
    ELSE title

\* a faulty variant of applySuffix: the switch is not looked at
applySuffixAlways(title, c) ==
    IF c.suffix # <<>>
    THEN title \o <<" ">> \o trim(c.suffix)
    ELSE title

\* `if (constraints.suffixEnabled && constraints.suffix)`
applySuffix(title, c) ==
    IF c.suffixEnabled /\ c.suffix # <<>>
    THEN title \o <<" ">> \o trim(c.suffix)
    ELSE title

\* a faulty variant of limitKeywords: nothing is sliced off
limitKeywordsKeepsAll(data, c) ==
    IF data.hasKeywords THEN data.keywords ELSE <<>>

\* let keywords = data.keywords || []; slice(0, keywordCount) when longer
limitKeywords(data, c) ==
    LET keywords == IF data.hasKeywords THEN data.keywords ELSE <<>>
    IN  IF Len(keywords) > c.keywordCount
        THEN substring(keywords, c.keywordCount)
        ELSE keywords

\* applyPostProcessing(data, constraints), for data it does not throw on
applyPostProcessing(data, c) ==
    [ data EXCEPT !.hasTitle = TRUE,
                  !.title = applySuffix(applyPrefix(truncateTitle(trim(data.title), c), c), c),
                  !.hasKeywords = TRUE,
                  !.keywords = limitKeywords(data, c) ]

\* rawContent, or the error thrown before it is set
rawContentOf(provider, r) ==
    IF r.kind = "reject" THEN Throw(r.message)
    ELSE IF provider = "gemini"
         THEN Value(IF r.hasText THEN r.text ELSE <<>>)     \* response.text || ""
    ELSE IF ~ok(r)
         THEN IF r.bodyJson /\ r.bodyNull                      \* err is null
              THEN Throw("Cannot read properties of null (reading 'error')")
              ELSE Throw(IF r.bodyJson /\ r.errMessage # ""
                         THEN r.errMessage ELSE r.statusText)
    ELSE IF ~r.bodyJson THEN Throw("Unexpected token < in JSON")
    ELSE IF r.bodyNull
         THEN Throw("Cannot read properties of null (reading 'choices')")
    ELSE IF ~r.hasChoices
         THEN Throw("Cannot read properties of undefined (reading '0')")
    ELSE Value(IF r.hasText THEN r.text ELSE <<>>)

\* a faulty variant of SuccessResult: the parsed data returned as it came
SuccessResultRaw(data, c) == data

\* what `return applyPostProcessing(data, constraints)` returns
SuccessResult(data, c) == applyPostProcessing(data, c)

\* a faulty variant of tryAttempt: an empty text goes on to JSON.parse
tryAttemptParsesEmpty(provider, r, c) ==
    LET raw == rawContentOf(provider, r)
    IN  IF ~raw.ok THEN raw
        ELSE LET parsed == JSONparse(cleanedJson(raw.value))
             IN  IF ~parsed.ok THEN parsed
                 ELSE IF parsed.value.kind = "null"
                      THEN Throw("Cannot read properties of null (reading 'title')")
                 ELSE IF PostProcessingThrows(parsed.value)
                      THEN Throw("Cannot read properties of undefined (reading 'trim')")
                 ELSE Value(SuccessResult(parsed.value, c))

\* the try block for one reply: the value returned, or the error caught
tryAttempt(provider, r, c) ==
    LET raw == rawContentOf(provider, r)
    IN  IF ~raw.ok THEN raw
        ELSE IF raw.value = <<>> THEN Throw("Empty AI response")
        ELSE LET parsed == JSONparse(cleanedJson(raw.value))
             IN  IF ~parsed.ok THEN parsed
                 ELSE IF parsed.value.kind = "null"
                      THEN Throw("Cannot read properties of null (reading 'title')")
                 ELSE IF PostProcessingThrows(parsed.value)
                      THEN Throw("Cannot read properties of undefined (reading 'trim')")
                 ELSE Value(SuccessResult(parsed.value, c))

\* `${step.provider.toUpperCase()} [${step.model}]: ${err.message}`
failureMessage(step, message) ==
    <<toUpperCase[step.provider], " [", step.model, "]: ", message>>


----------------------------------------------------------------------------
(* The inputs of a call and the replies the providers can give *)

KeyStrings == { <<" ", "k", " ">>, <<" ">> }

RECURSIVE SeqsUpTo(_, _)
SeqsUpTo(S, n) ==
    IF n = 0 THEN { <<>> }
    ELSE LET shorter == SeqsUpTo(S, n - 1)
         IN  shorter \cup { Append(q, x) : q \in { r \in shorter : Len(r) = n - 1 }, x \in S }

\* every settings.keys over the providers ps holding at most budget key strings
RECURSIVE KeyConfigs(_, _)
KeyConfigs(ps, budget) ==
    IF ps = {} THEN { [p \in {} |-> <<>>] }
    ELSE LET p == CHOOSE q \in ps : TRUE
         IN  UNION { { (p :> ks) @@ f : f \in KeyConfigs(ps \ {p}, budget - Len(ks)) }
                     : ks \in SeqsUpTo(KeyStrings, budget) }

Sunset == Obj(TRUE, <<" ", "S", "u", "n", " ", "s", "e", "t", " ">>,
              TRUE, << <<"s", "e", "a">>, <<"s", "u", "n">>, <<"s", "k", "y">> >>,
              TRUE, <<"d">>)

TitleA == Obj(TRUE, <<"A">>, TRUE, << <<"x">>, <<"x">>, <<"y">> >>, FALSE, <<>>)

ValidText  == << Json(Sunset) >>
FencedText == << FenceJson, NewLine, Json(TitleA), NewLine, Fence >>
ProseText  == << Prose, NewLine, Json(TitleA) >>

\* the replies of the native client (gemini) and of the HTTP endpoints
Responses(provider) ==
    IF provider = "gemini"
    THEN { Reject(401, "API key not valid. Please pass a valid API key."),
           Reply(FALSE, <<>>),
           Reply(TRUE, ProseText),
           Reply(TRUE, ValidText),
           Reply(TRUE, FencedText) }
    ELSE { Reject(0, "Failed to fetch"),
           HttpError(401, "Unauthorized", FALSE, ""),
           HttpError(401, "Unauthorized", TRUE, "Incorrect API key provided"),
           Reply(TRUE, <<>>),
           Reply(TRUE, ProseText),
           Reply(TRUE, ValidText),
           Reply(TRUE, FencedText) }

DefaultConstraints ==
    [ maxTitleChars |-> 100, maxDescChars |-> 150, keywordCount |-> 46,
      prefix |-> <<>>, suffix |-> <<>>, prefixEnabled |-> FALSE,
      suffixEnabled |-> FALSE, selectedPlatform |-> "Generic" ]

TightConstraints ==
    [ DefaultConstraints EXCEPT !.maxTitleChars = 4, !.keywordCount = 2,
                                !.prefix = <<"P", "r", "o">>, !.prefixEnabled = TRUE,
                                !.selectedPlatform = "AdobeStock" ]

ConstraintChoices == { DefaultConstraints, TightConstraints }

NoResult == JsonNull
NoError  == <<>>

----------------------------------------------------------------------------
(* analyzeImageWithAI *)

step == strategy[stepIdx]
stepKeys == keys[step.provider]
trimmedKey == trim(stepKeys[keyIdx])

\* the App as it is mounted: no image, nothing running
NoBatch ==
    [ pc |-> "idle", n |-> 0, model |-> "gemini-3-flash-preview",
      pending |-> <<>>, snapshot |-> <<>>, started |-> <<>> ]

UIIdle ==
    /\ images = <<>>
    /\ status = "IDLE"
    /\ model = "gemini-3-flash-preview"
    /\ batch = NoBatch
    /\ runs = {}
    /\ clicks = 0
    /\ uploads = 0

\* the activation of one call: its arguments and its local variables
frame ==
    [ image |-> image, constraints |-> constraints, stepIdx |-> stepIdx,
      keyIdx |-> keyIdx, pc |-> pc, lastError |-> lastError,
      inflight |-> inflight, calls |-> calls, replies |-> replies,
      result |-> result, error |-> error ]

\* the activation of a call of analyzeImageWithAI on entry
EntryFrame(img, c) ==
    [ image |-> img, constraints |-> c, stepIdx |-> 1, keyIdx |-> 1,
      pc |-> "for_step", lastError |-> <<"No active API keys found.">>,
      inflight |-> {}, calls |-> <<>>, replies |-> <<>>,
      result |-> NoResult, error |-> NoError ]

NoFrame == [ EntryFrame(0, DefaultConstraints) EXCEPT !.pc = "none" ]

Init ==
    /\ UIIdle
    /\ cancelled = FALSE
    /\ image = 1
    /\ other = NoFrame
    /\ rawData = NoResult
    /\ keys \in KeyConfigs(AIProvider, MaxKeys)
    /\ constraints \in ConstraintChoices
    /\ stepIdx = 1
    /\ keyIdx = 1
    /\ pc = "for_step"
    /\ lastError = <<"No active API keys found.">>
    /\ inflight = {}
    /\ calls = <<>>
    /\ replies = <<>>
    /\ warnLog = <<>>
    /\ result = NoResult
    /\ error = NoError

\* a faulty variant of SkipStep: the missing key recorded as a failure
SkipStepLogsFailure ==
    /\ pc = "for_step"
    /\ stepIdx <= Len(strategy)
    /\ stepKeys = <<>>
    /\ stepIdx' = stepIdx + 1
    /\ lastError' = failureMessage(step, "MISSING_KEY")
    /\ warnLog' = Append(warnLog, <<"Fallback triggered: ">> \o lastError')
    /\ UNCHANGED <<uiVars, cancelled, image, other, rawData, keys, constraints, keyIdx, pc,
                   inflight, calls, replies, result, error>>

\* `if (!keys || keys.length === 0) continue;`
SkipStep ==
    /\ pc = "for_step"
    /\ stepIdx <= Len(strategy)
    /\ stepKeys = <<>>
    /\ stepIdx' = stepIdx + 1
    /\ UNCHANGED <<uiVars, cancelled, image, other, rawData, keys, constraints, keyIdx, pc,
                   lastError, inflight, calls, replies, warnLog, result, error>>

\* a faulty variant of EnterKeys: a provider whose keys were tried in an
\* earlier step is not tried again
EnterKeysSkipsTried ==
    /\ pc = "for_step"
    /\ stepIdx <= Len(strategy)
    /\ stepKeys # <<>>
    /\ IF \E n \in 1..Len(calls) : calls[n].provider = step.provider
       THEN stepIdx' = stepIdx + 1 /\ UNCHANGED <<keyIdx, pc>>
       ELSE keyIdx' = 1 /\ pc' = "for_key" /\ UNCHANGED stepIdx
    /\ UNCHANGED <<uiVars, cancelled, image, other, rawData, keys, constraints, lastError,
                   inflight, calls, replies, warnLog, result, error>>

\* `for (const apiKey of keys)` entered
EnterKeys ==
    /\ pc = "for_step"
    /\ stepIdx <= Len(strategy)
    /\ stepKeys # <<>>
    /\ keyIdx' = 1
    /\ pc' = "for_key"
    /\ UNCHANGED <<uiVars, cancelled, image, other, rawData, keys, constraints, stepIdx, lastError,
                   inflight, calls, replies, warnLog, result, error>>

\* a faulty variant of KeysDone: no fallback to the later plan entries
KeysDoneThrows ==
    /\ pc = "for_key"
    /\ keyIdx > Len(stepKeys)
    /\ pc' = "thrown"
    /\ error' = <<"Engine stopped: ">> \o lastError
    /\ UNCHANGED <<uiVars, cancelled, image, other, rawData, keys, constraints, stepIdx, keyIdx,
                   lastError, inflight, calls, replies, warnLog, result>>

\* the keys of the step are used up: the next step of the strategy
KeysDone ==
    /\ pc = "for_key"
    /\ keyIdx > Len(stepKeys)
    /\ stepIdx' = stepIdx + 1
    /\ pc' = "for_step"
    /\ UNCHANGED <<uiVars, cancelled, image, other, rawData, keys, constraints, keyIdx, lastError,
                   inflight, calls, replies, warnLog, result, error>>

\* a faulty variant of SkipKey: the loop does not move past a blank key
SkipKeyStuck ==
    /\ pc = "for_key"
    /\ keyIdx <= Len(stepKeys)
    /\ trimmedKey = <<>>
    /\ UNCHANGED vars

\* a faulty variant of SkipKey: the blank key is removed from settings.keys
SkipKeyRemovesKey ==
    /\ pc = "for_key"
    /\ keyIdx <= Len(stepKeys)
    /\ trimmedKey = <<>>
    /\ keys' = [keys EXCEPT ![step.provider] =
                    SubSeq(stepKeys, 1, keyIdx - 1) \o SubSeq(stepKeys, keyIdx + 1, Len(stepKeys))]
    /\ UNCHANGED <<uiVars, cancelled, image, other, rawData, constraints, stepIdx, keyIdx, pc,
                   lastError, inflight, calls, replies, warnLog, result, error>>

\* faulty variants of SkipKey: `break` for `continue`, and a blank key
\* recorded as a failure
SkipKeyBreaks ==
    /\ pc = "for_key"
    /\ keyIdx <= Len(stepKeys)
    /\ trimmedKey = <<>>
    /\ stepIdx' = stepIdx + 1
    /\ pc' = "for_step"
    /\ UNCHANGED <<uiVars, cancelled, image, other, rawData, keys, constraints, keyIdx, lastError,
                   inflight, calls, replies, warnLog, result, error>>

SkipKeyLogsFailure ==
    /\ pc = "for_key"
    /\ keyIdx <= Len(stepKeys)
    /\ trimmedKey = <<>>
    /\ keyIdx' = keyIdx + 1
    /\ lastError' = failureMessage(step, "MISSING_KEY")
    /\ UNCHANGED <<uiVars, cancelled, image, other, rawData, keys, constraints, stepIdx, pc,
                   inflight, calls, replies, warnLog, result, error>>

\* `if (!trimmedKey) continue;`
SkipKey ==
    /\ pc = "for_key"
    /\ keyIdx <= Len(stepKeys)
    /\ trimmedKey = <<>>
    /\ keyIdx' = keyIdx + 1
    /\ UNCHANGED <<uiVars, cancelled, image, other, rawData, keys, constraints, stepIdx, pc,
                   lastError, inflight, calls, replies, warnLog, result, error>>

\* the request of one attempt
request == [ step |-> stepIdx, key |-> keyIdx, provider |-> step.provider,
             model |-> step.model, apiKey |-> trimmedKey, image |-> image ]

\* a faulty variant of StartAttempt: the call is issued and not awaited
StartAttemptNoAwait ==
    /\ pc = "for_key"
    /\ keyIdx <= Len(stepKeys)
    /\ trimmedKey # <<>>
    /\ calls' = Append(calls, request)
    /\ inflight' = inflight \cup { Len(calls) + 1 }
    /\ keyIdx' = keyIdx + 1
    /\ UNCHANGED <<uiVars, cancelled, image, other, rawData, keys, constraints, stepIdx, pc,
                   lastError, replies, warnLog, result, error>>

\* `await ai.models.generateContent(...)` / `await fetch(...)`: the call is
\* issued and the function suspends until it settles
StartAttempt ==
    /\ pc = "for_key"
    /\ keyIdx <= Len(stepKeys)
    /\ trimmedKey # <<>>
    /\ calls' = Append(calls, request)
    /\ inflight' = inflight \cup { Len(calls) + 1 }
    /\ pc' = "await"
    /\ UNCHANGED <<uiVars, cancelled, image, other, rawData, keys, constraints, stepIdx, keyIdx,
                   lastError, replies, warnLog, result, error>>

\* a faulty variant of AttemptSucceeds: the loop goes on after a success
AttemptSucceedsContinues ==
    /\ pc = "await"
    /\ \E r \in Responses(step.provider) :
          LET out == tryAttempt(step.provider, r, constraints)
          IN  /\ out.ok
              /\ replies' = Append(replies, r)
              /\ result' = out.value
    /\ inflight' = inflight \ { Len(calls) }
    /\ keyIdx' = keyIdx + 1
    /\ pc' = "for_key"
    /\ UNCHANGED <<uiVars, cancelled, image, other, rawData, keys, constraints, stepIdx, lastError,
                   calls, warnLog, error>>

\* the call settles and the try block runs to `return applyPostProcessing(...)`
AttemptSucceeds ==
    /\ pc = "await"
    /\ \E r \in Responses(step.provider) :
          LET out == tryAttempt(step.provider, r, constraints)
          IN  /\ out.ok
              /\ replies' = Append(replies, r)
              /\ result' = out.value
    /\ inflight' = inflight \ { Len(calls) }
    /\ pc' = "returned"
    /\ UNCHANGED <<uiVars, cancelled, image, other, rawData, keys, constraints, stepIdx, keyIdx,
                   lastError, calls, warnLog, error>>

\* a faulty variant of Caught: the failure is added to those remembered
CaughtAppends(r) ==
    LET out == tryAttempt(step.provider, r, constraints)
    IN  /\ ~out.ok
        /\ replies' = Append(replies, r)
        /\ lastError' = (IF replies = <<>> THEN <<>> ELSE lastError \o <<"; ">>)
                            \o failureMessage(step, out.message)
        /\ warnLog' = Append(warnLog, <<"Fallback triggered: ">>
                                       \o failureMessage(step, out.message))

\* the try block throws on reply r and the catch block runs: lastError is
\* set and console.warn is called
Caught(r) ==
    LET out == tryAttempt(step.provider, r, constraints)
    IN  /\ ~out.ok
        /\ replies' = Append(replies, r)
        /\ lastError' = failureMessage(step, out.message)
        /\ warnLog' = Append(warnLog, <<"Fallback triggered: ">> \o lastError')

\* faulty variants of AttemptFails: `break` for `continue`, a rethrow, and
\* a retry of the same key
AttemptFailsBreaks ==
    /\ pc = "await"
    /\ \E r \in Responses(step.provider) : Caught(r)
    /\ inflight' = inflight \ { Len(calls) }
    /\ stepIdx' = stepIdx + 1
    /\ pc' = "for_step"
    /\ UNCHANGED <<uiVars, cancelled, image, other, rawData, keys, constraints, keyIdx, calls,
                   result, error>>

AttemptFailsAborts ==
    /\ pc = "await"
    /\ \E r \in Responses(step.provider) : Caught(r)
    /\ inflight' = inflight \ { Len(calls) }
    /\ pc' = "thrown"
    /\ error' = <<"Engine stopped: ">> \o lastError'
    /\ UNCHANGED <<uiVars, cancelled, image, other, rawData, keys, constraints, stepIdx, keyIdx,
                   calls, result>>

AttemptFailsRetries ==
    /\ pc = "await"
    /\ \E r \in Responses(step.provider) : Caught(r)
    /\ inflight' = inflight \ { Len(calls) }
    /\ pc' = "for_key"
    /\ UNCHANGED <<uiVars, cancelled, image, other, rawData, keys, constraints, stepIdx, keyIdx,
                   calls, result, error>>

\* the call settles with a failure; after the catch block, `continue`
AttemptFails ==
    /\ pc = "await"
    /\ \E r \in Responses(step.provider) : Caught(r)
    /\ inflight' = inflight \ { Len(calls) }
    /\ keyIdx' = keyIdx + 1
    /\ pc' = "for_key"
    /\ UNCHANGED <<uiVars, cancelled, image, other, rawData, keys, constraints, stepIdx, calls,
                   result, error>>

\* `throw new Error(`Engine stopped: ${lastError}`)` after the loops
Exhausted ==
    /\ pc = "for_step"
    /\ stepIdx > Len(strategy)
    /\ pc' = "thrown"
    /\ error' = <<"Engine stopped: ">> \o lastError
    /\ UNCHANGED <<uiVars, cancelled, image, other, rawData, keys, constraints, stepIdx, keyIdx,
                   lastError, inflight, calls, replies, warnLog, result>>

Next ==
    \/ SkipStep
    \/ EnterKeys
    \/ KeysDone
    \/ SkipKey
    \/ StartAttempt
    \/ AttemptFails
    \/ AttemptSucceeds
    \/ Exhausted

Spec == Init /\ [][Next]_vars

\* the event loop runs the function whenever it can go on, and every
\* provider call settles: it resolves or it rejects
FairSpec == Spec /\ WF_vars(Next)

----------------------------------------------------------------------------
(* Two calls of analyzeImageWithAI on one event loop *)

\* a faulty variant of Resume: lastError is not a local of the call but
\* shared by the calls
ResumeSharedLastError(f) ==
    /\ image' = f.image
    /\ constraints' = f.constraints
    /\ stepIdx' = f.stepIdx
    /\ keyIdx' = f.keyIdx
    /\ pc' = f.pc
    /\ lastError' = lastError
    /\ inflight' = f.inflight
    /\ calls' = f.calls
    /\ replies' = f.replies
    /\ result' = f.result
    /\ error' = f.error

\* the event loop goes on with the call whose activation is f: the
\* arguments, `lastError` and the loop variables are locals of the call
Resume(f) ==
    /\ image' = f.image
    /\ constraints' = f.constraints
    /\ stepIdx' = f.stepIdx
    /\ keyIdx' = f.keyIdx
    /\ pc' = f.pc
    /\ lastError' = f.lastError
    /\ inflight' = f.inflight
    /\ calls' = f.calls
    /\ replies' = f.replies
    /\ result' = f.result
    /\ error' = f.error

\* a function runs until it awaits or ends; then the other call is entered
\* or, when it awaits too, it is its provider call that settles next
Switch ==
    /\ pc \in {"await", "returned", "thrown"}
    /\ other.pc \in {"for_step", "await"}
    /\ other' = frame
    /\ Resume(other)
    /\ UNCHANGED <<uiVars, cancelled, rawData, keys, warnLog>>

\* the key strings stored in settings.keys while two calls run
MaxPairKeys == 1

\* the replies the providers give while two calls run
PairResponses(provider) ==
    IF provider = "gemini"
    THEN { Reject(401, "API key not valid. Please pass a valid API key."),
           Reply(FALSE, <<>>),
           Reply(TRUE, ValidText) }
    ELSE { Reject(0, "Failed to fetch"),
           HttpError(401, "Unauthorized", FALSE, ""),
           Reply(TRUE, ValidText) }

PairInit ==
    /\ UIIdle
    /\ cancelled = FALSE
    /\ image = 1
    /\ other = EntryFrame(2, TightConstraints)
    /\ rawData = NoResult
    /\ keys \in KeyConfigs(AIProvider, MaxPairKeys)
    /\ constraints = DefaultConstraints
    /\ stepIdx = 1
    /\ keyIdx = 1
    /\ pc = "for_step"
    /\ lastError = <<"No active API keys found.">>
    /\ inflight = {}
    /\ calls = <<>>
    /\ replies = <<>>
    /\ warnLog = <<>>
    /\ result = NoResult
    /\ error = NoError

PairNext ==
    \/ /\ Next
       /\ \A n \in 1..Len(replies') : replies'[n] \in PairResponses(calls'[n].provider)
    \/ Switch

PairSpec == PairInit /\ [][PairNext]_vars


----------------------------------------------------------------------------
(* One call with one stored key, and the less common replies *)

NoTitle    == Obj(FALSE, <<>>, TRUE, << <<"x">> >>, TRUE, <<"d">>)
NoKeywords == Obj(TRUE, <<"A">>, FALSE, <<>>, TRUE, <<"d">>)

\* replies beside those of Responses: objects that lack a field, and on
\* the HTTP path error bodies without a message and the body null
OtherResponses(provider) ==
    { Reply(TRUE, << Json(NoTitle) >>), Reply(TRUE, << Json(NoKeywords) >>) }
    \cup IF provider = "gemini" THEN {}
         ELSE { HttpError(500, "Internal Server Error", TRUE, ""),
                HttpErrorNull(500, "Internal Server Error") }

\* settings.keys holding one key string, of one provider
OneKeyConfigs ==
    { [q \in AIProvider |-> IF q = p THEN <<k>> ELSE <<>>]
      : p \in AIProvider, k \in KeyStrings }

AttemptInit ==
    /\ UIIdle
    /\ cancelled = FALSE
    /\ image = 1
    /\ other = NoFrame
    /\ rawData = NoResult
    /\ keys \in OneKeyConfigs
    /\ constraints \in ConstraintChoices
    /\ stepIdx = 1
    /\ keyIdx = 1
    /\ pc = "for_step"
    /\ lastError = <<"No active API keys found.">>
    /\ inflight = {}
    /\ calls = <<>>
    /\ replies = <<>>
    /\ warnLog = <<>>
    /\ result = NoResult
    /\ error = NoError

\* the call settles with one of the other replies and the try block
\* returns
OtherReplySucceeds ==
    /\ pc = "await"
    /\ \E r \in OtherResponses(step.provider) :
          LET out == tryAttempt(step.provider, r, constraints)
          IN  /\ out.ok
              /\ replies' = Append(replies, r)
              /\ result' = out.value
    /\ inflight' = inflight \ { Len(calls) }
    /\ pc' = "returned"
    /\ UNCHANGED <<uiVars, cancelled, image, other, rawData, keys, constraints, stepIdx, keyIdx,
                   lastError, calls, warnLog, error>>

\* the call settles with one of the other replies and the catch block runs
OtherReplyFails ==
    /\ pc = "await"
    /\ \E r \in OtherResponses(step.provider) : Caught(r)
    /\ inflight' = inflight \ { Len(calls) }
    /\ keyIdx' = keyIdx + 1
    /\ pc' = "for_key"
    /\ UNCHANGED <<uiVars, cancelled, image, other, rawData, keys, constraints, stepIdx, calls,
                   result, error>>

AttemptNext ==
    \/ Next
    \/ OtherReplyFails
    \/ OtherReplySucceeds

AttemptSpec == AttemptInit /\ [][AttemptNext]_vars

\* the caller gives up on the call: analyzeImageWithAI takes no deadline
\* and no signal, and passes none to fetch or generateContent, so the
\* call and its provider call in flight go on as they are
CallerCancels ==
    /\ ~cancelled
    /\ pc \notin {"returned", "thrown"}
    /\ cancelled' = TRUE
    /\ UNCHANGED <<uiVars, image, other, rawData, keys, constraints, stepIdx, keyIdx, pc, lastError,
                   inflight, calls, replies, warnLog, result, error>>

CancelNext ==
    \/ Next
    \/ CallerCancels

CancelSpec == AttemptInit /\ [][CancelNext]_vars

----------------------------------------------------------------------------
(* applyPostProcessing on its own *)

TitleChars == {"a", "b", " "}
Affixes == { <<>>, <<" ">>, <<" ", "P", " ">> }
KeywordStrings == { <<"x">>, <<"X">>, <<" ", "y">>, <<>> }

\* data whose title varies, with constraints on the title
TitleInputs ==
    { <<Obj(TRUE, t, TRUE, << <<"x">> >>, FALSE, <<>>),
        [ DefaultConstraints EXCEPT !.maxTitleChars = n,
                                    !.prefix = pre[1], !.prefixEnabled = pre[2],
                                    !.suffix = suf[1], !.suffixEnabled = suf[2] ]>>
      : t \in SeqsUpTo(TitleChars, MaxTitleLen), n \in 1..MaxTitleLen,
        pre \in Affixes \X BOOLEAN, suf \in Affixes \X BOOLEAN }

\* data whose keywords vary or are missing, with a keywordCount
KeywordInputs ==
    { <<Obj(TRUE, <<"a">>, kws[1], kws[2], FALSE, <<>>),
        [ DefaultConstraints EXCEPT !.keywordCount = n ]>>
      : kws \in ({TRUE} \X SeqsUpTo(KeywordStrings, MaxKeywords)) \cup { <<FALSE, <<>> >> },
        n \in 1..MaxKeywords }

\* data applyPostProcessing throws on: null, and an object without title
ThrowingInputs ==
    { <<d, DefaultConstraints>>
      : d \in { JsonNull, Obj(FALSE, <<>>, TRUE, << <<"x">> >>, FALSE, <<>>) } }

PPInit ==
    /\ \E inp \in TitleInputs \cup KeywordInputs \cup ThrowingInputs :
          /\ rawData = inp[1]
          /\ constraints = inp[2]
    /\ pc = "pp_call"
    /\ UIIdle
    /\ cancelled = FALSE
    /\ image = 1
    /\ other = NoFrame
    /\ keys = [p \in AIProvider |-> <<>>]
    /\ stepIdx = 1
    /\ keyIdx = 1
    /\ lastError = <<"No active API keys found.">>
    /\ inflight = {}
    /\ calls = <<>>
    /\ replies = <<>>
    /\ warnLog = <<>>
    /\ result = NoResult
    /\ error = NoError

\* a faulty variant of PostProcess: the title and the keywords are written
\* into the object that came in (`data.title = ...; return data`)
PostProcessInPlace ==
    /\ pc = "pp_call"
    /\ ~PostProcessingThrows(rawData)
    /\ result' = applyPostProcessing(rawData, constraints)
    /\ rawData' = result'
    /\ pc' = "pp_done"
    /\ UNCHANGED <<uiVars, cancelled, image, other, keys, constraints, stepIdx, keyIdx, lastError,
                   inflight, calls, replies, warnLog, error>>

\* applyPostProcessing(data, constraints) returns
PostProcess ==
    /\ pc = "pp_call"
    /\ ~PostProcessingThrows(rawData)
    /\ result' = applyPostProcessing(rawData, constraints)
    /\ pc' = "pp_done"
    /\ UNCHANGED <<uiVars, cancelled, image, other, rawData, keys, constraints, stepIdx, keyIdx,
                   lastError, inflight, calls, replies, warnLog, error>>

\* data.title.trim() throws a TypeError
PostProcessFails ==
    /\ pc = "pp_call"
    /\ PostProcessingThrows(rawData)
    /\ error' = IF rawData.kind = "null"
                THEN <<"Cannot read properties of null (reading 'title')">>
                ELSE <<"Cannot read properties of undefined (reading 'trim')">>
    /\ pc' = "pp_thrown"
    /\ UNCHANGED <<uiVars, cancelled, image, other, rawData, keys, constraints, stepIdx, keyIdx,
                   lastError, inflight, calls, replies, warnLog, result>>

PPNext ==
    \/ PostProcess
    \/ PostProcessFails

PPSpec == PPInit /\ [][PPNext]_vars

----------------------------------------------------------------------------
(* Vocabulary of the properties *)

IsBlank(key) == \A j \in 1..Len(key) : key[j] \in WhiteSpace

\* every (plan entry, credential) pair, and those whose credential is not blank
AllPairs ==
    UNION { { <<i, k>> : k \in 1..Len(keys[strategy[i].provider]) }
            : i \in 1..Len(strategy) }

UsablePairs == { p \in AllPairs : ~IsBlank(keys[strategy[p[1]].provider][p[2]]) }

\* plan order, then credential order
Before(p, q) == p[1] < q[1] \/ (p[1] = q[1] /\ p[2] < q[2])

CallPair(n) == <<calls[n].step, calls[n].key>>
CalledPairs == { CallPair(n) : n \in 1..Len(calls) }

\* the failure a console.warn line reports: the text after "Fallback triggered: "
FailureOf(line) == SubSeq(line, 2, Len(line))

\* the n-th call has failed and its failure was recorded
Failed(n) ==
    /\ n <= Len(replies)
    /\ n <= Len(warnLog)
    /\ FailureOf(warnLog[n])[1] = toUpperCase[calls[n].provider]
    /\ FailureOf(warnLog[n])[3] = calls[n].model

\* the reply is one the attempt turns into metadata
Usable(provider, r) == tryAttempt(provider, r, constraints).ok

\* the text mentions the provider's identifier, in either case
Mentions(text, provider) ==
    \E j \in 1..Len(text) : text[j] \in { provider, toUpperCase[provider] }

\* the parts occur in the text one after the other
RECURSIVE ContainsInOrder(_, _)
ContainsInOrder(text, parts) ==
    IF parts = <<>> THEN TRUE
    ELSE \E i \in 0..(Len(text) - Len(Head(parts))) :
            /\ SubSeq(text, i + 1, i + Len(Head(parts))) = Head(parts)
            /\ ContainsInOrder(SubSeq(text, i + Len(Head(parts)) + 1, Len(text)),
                               Tail(parts))

Succeeded == result # NoResult

----------------------------------------------------------------------------
(* C1..C10: the Fallback Orchestrator *)

\* C1  First success wins: the step in which an attempt succeeds ends the
\* call with the post-processed, parsed text of that attempt's reply, and
\* from then on no provider call is issued and the result stays as it is.
C1_FirstSuccessWins ==
    [][ /\ (~Succeeded /\ Succeeded') =>
             /\ pc' = "returned"
             /\ calls' = calls
             /\ inflight' = {}
             /\ LET r == replies'[Len(replies')]
                    raw == rawContentOf(calls[Len(calls)].provider, r)
                IN  /\ raw.ok
                    /\ result' = applyPostProcessing(
                                     JSONparse(cleanedJson(raw.value)).value, constraints)
        /\ Succeeded => /\ pc' = "returned"
                        /\ UNCHANGED <<calls, result, inflight>> ]_vars

C1_Witness ==
    /\ pc = "returned"
    /\ Succeeded
    /\ \E p \in UsablePairs : Before(CallPair(Len(calls)), p)

\* C2  Attempt order: the calls are issued in plan order and, within a plan
\* entry, in the stored order of the credentials; when a call is issued,
\* the calls issued before it are exactly the attempts that precede it in
\* that order, and each of them has failed.
C2_AttemptOrder ==
    \A n \in 1..Len(calls) :
        /\ \A m \in 1..(n - 1) : Before(CallPair(m), CallPair(m + 1)) /\ Failed(m)
        /\ { CallPair(m) : m \in 1..(n - 1) }
               = { p \in UsablePairs : Before(p, CallPair(n)) }

C2_Witness ==
    /\ Len(calls) >= 3
    /\ calls[1].step = calls[2].step
    /\ calls[1].key < calls[2].key
    /\ calls[2].step < calls[3].step

\* C3  First configured, first successful: the metadata a call returns is
\* the post-processed, parsed reply of the earliest attempt, in plan then
\* credential order, whose reply is usable; it is a function of the keys,
\* the constraints and the replies alone.
C3_FirstConfiguredFirstSuccessful ==
    pc = "returned" =>
        LET n == Len(calls)
        IN  /\ n >= 1
            /\ Len(replies) = n
            /\ CalledPairs = { p \in UsablePairs : ~Before(CallPair(n), p) }
            /\ \A m \in 1..(n - 1) : ~Usable(calls[m].provider, replies[m])
            /\ Usable(calls[n].provider, replies[n])
            /\ result = applyPostProcessing(
                   JSONparse(cleanedJson(
                       rawContentOf(calls[n].provider, replies[n]).value)).value,
                   constraints)

C3_Witness ==
    /\ pc = "returned"
    /\ Len(calls) >= 2
    /\ result.title # JSONparse(cleanedJson(replies[Len(replies)].text)).value.title

\* C4  Every attempt failure is locally recoverable: a step in which a call
\* settles without success records the failure (lastError, console.warn)
\* and goes on to the next credential of the same plan entry; it never
\* ends the call.
C4_FailureRecoverable ==
    [][ (Len(replies') = Len(replies) + 1 /\ ~Succeeded') =>
            LET r == replies'[Len(replies')]
                out == tryAttempt(step.provider, r, constraints)
            IN  /\ ~out.ok
                /\ lastError' = failureMessage(step, out.message)
                /\ warnLog' = Append(warnLog, <<"Fallback triggered: ">> \o lastError')
                /\ pc' = "for_key"
                /\ stepIdx' = stepIdx
                /\ keyIdx' = keyIdx + 1
                /\ error' = NoError ]_vars

C4_Witness ==
    /\ pc = "await"
    /\ Len(warnLog) >= 2
    /\ FailureOf(warnLog[1])[5] = "Failed to fetch"
    /\ FailureOf(warnLog[2])[5] = "Empty AI response"

\* C5  A plan entry whose provider has no credentials is skipped: no call
\* is made for it and no failure is recorded for it.
C5_EmptyProviderSkipped ==
    /\ \A n \in 1..Len(calls) : keys[calls[n].provider] # <<>>
    /\ \A n \in 1..Len(warnLog) :
           \A p \in AIProvider :
               keys[p] = <<>> => ~Mentions(warnLog[n], p)
    /\ \A p \in AIProvider : keys[p] = <<>> => ~Mentions(lastError, p)

C5_Witness ==
    /\ pc = "returned"
    /\ keys["gemini"] = <<>>
    /\ Len(keys["groq"]) = 1
    /\ Len(calls) = 1
    /\ calls[1].provider = "groq"
    /\ warnLog = <<>>

\* C6  On exhaustion the error message contains every failure of the call,
\* one per failed attempt, in the order of the attempts.
C6_AggregateHoldsEveryFailure ==
    pc = "thrown" =>
        ContainsInOrder(error, [n \in 1..Len(warnLog) |-> FailureOf(warnLog[n])])

\* C7  If every attempt is rejected with HTTP 401, the error text contains
\* the identifier of every provider that was attempted.
C7_Every401ProviderNamed ==
    (pc = "thrown" /\ \A n \in 1..Len(replies) : replies[n].status = 401) =>
        \A n \in 1..Len(calls) : Mentions(error, calls[n].provider)

\* C8 as claimed: the call fails only when every (plan entry, credential)
\* pair of every configured provider has been attempted and has failed.
C8_FailsOnlyAfterEveryPair ==
    pc = "thrown" =>
        /\ AllPairs \subseteq CalledPairs
        /\ \A n \in 1..Len(calls) : Failed(n)

\* C8  Only exhaustion is terminal: the call fails only when every (plan
\* entry, credential) pair whose credential is not blank has been attempted
\* and has failed.
C8_FailsOnlyAfterEveryUsablePair ==
    pc = "thrown" =>
        /\ CalledPairs = UsablePairs
        /\ Len(calls) = Cardinality(UsablePairs)
        /\ \A n \in 1..Len(calls) :
               Failed(n) /\ ~Usable(calls[n].provider, replies[n])
        /\ inflight = {}

C8_Witness ==
    /\ pc = "thrown"
    /\ Len(calls) >= 2
    /\ AllPairs # UsablePairs

\* C9  At most one in flight: at most one provider call of the resolve call
\* is outstanding, and it is the one issued last; every earlier call has
\* settled.
C9_AtMostOneInFlight ==
    /\ Cardinality(inflight) <= 1
    /\ inflight \subseteq { Len(calls) }
    /\ Len(calls) = Len(replies) + Cardinality(inflight)
    /\ (inflight # {}) <=> (pc = "await")

C9_Witness ==
    /\ pc = "await"
    /\ Len(calls) >= 2
    /\ inflight = { Len(calls) }

\* C10  No retry: each (plan entry, credential) pair is used for at most
\* one provider call.
C10_NoRetry ==
    \A m, n \in 1..Len(calls) : m # n => CallPair(m) # CallPair(n)

C10_Witness ==
    \E m, n \in 1..Len(calls) :
        /\ m < n
        /\ Failed(m)
        /\ calls[m].provider = calls[n].provider
        /\ calls[m].key = calls[n].key
        /\ calls[m].apiKey = calls[n].apiKey


----------------------------------------------------------------------------
(* C11..C13 *)

Done == pc \in {"returned", "thrown"}

\* C11  Termination: when every provider call settles, the call ends; it
\* ends with a metadata object or with an error, never both, and it has
\* made no more attempts than there are (plan entry, credential) pairs.
C11_Termination ==
    /\ <>Done
    /\ [](Len(calls) <= Cardinality(AllPairs))
    /\ [](pc = "returned" => (Succeeded /\ error = NoError))
    /\ [](pc = "thrown" => (~Succeeded /\ error # NoError))
    /\ [][Done => UNCHANGED vars]_vars

C11_Witness ==
    /\ pc = "thrown"
    /\ Len(calls) = Cardinality(AllPairs)
    /\ Len(calls) >= 4

\* the (plan entry, credential) pair of a request
PairOf(c) == <<c.step, c.key>>

\* what a call with the activation f does when it runs alone: its requests
\* carry its image and go down the usable pairs in order, its failure is
\* the one of its own last failed attempt, and its outcome is made of its
\* own replies and constraints
Alone(f) ==
    LET n == Len(f.calls)
        r == Len(f.replies)
        called == { PairOf(f.calls[m]) : m \in 1..n }
        out(m) == tryAttempt(f.calls[m].provider, f.replies[m], f.constraints)
        k == IF f.pc = "returned" THEN r - 1 ELSE r
    IN  /\ \A m \in 1..n : f.calls[m].image = f.image
        /\ n >= 1 => called = { p \in UsablePairs : ~Before(PairOf(f.calls[n]), p) }
        /\ \A m \in 1..k : ~out(m).ok
        /\ f.lastError = IF k = 0 THEN <<"No active API keys found.">>
                         ELSE failureMessage(strategy[f.calls[k].step], out(k).message)
        /\ f.pc = "returned" =>
              /\ r = n
              /\ out(n).ok
              /\ f.result = out(n).value
              /\ f.error = NoError
        /\ f.pc = "thrown" =>
              /\ r = n
              /\ called = UsablePairs
              /\ f.result = NoResult
              /\ f.error = <<"Engine stopped: ">> \o f.lastError
        /\ f.pc \notin {"returned", "thrown"} => (f.result = NoResult /\ f.error = NoError)

\* C12  Independent calls do not interfere: of two calls for different
\* images that run interleaved on the same settings, each one issues the
\* requests, keeps the failure and ends with the result or error that it
\* would have alone on its own replies; nothing of the other call is in it.
C12_CallsIndependent ==
    /\ other.image # image
    /\ Alone(frame)
    /\ Alone(other)

\* one call has thrown after two failures while the other one, two
\* requests into its run, is still awaiting, with another failure recorded
C12_Witness ==
    /\ pc = "thrown"
    /\ Len(calls) >= 2
    /\ other.pc = "await"
    /\ Len(other.calls) >= 2
    /\ other.lastError # lastError

\* the attempts that have failed so far
FailedAttempts == { m \in 1..Len(replies) : ~Usable(calls[m].provider, replies[m]) }

\* the entries of a failure record: each one opens with `PROVIDER [model]: `
EntryCount(record) == Cardinality({ j \in 1..Len(record) : record[j] = " [" })

\* C13  Failure record append-only, one entry per failed attempt: after n
\* failed attempts the record the call keeps of its failures (lastError)
\* holds n entries, the m-th one naming the provider and the model of the
\* m-th failed attempt, and a step never takes an entry away.
C13_FailureRecordAppendOnly ==
    /\ EntryCount(lastError) = Cardinality(FailedAttempts)
    /\ \A m \in FailedAttempts :
           ContainsInOrder(lastError, << <<toUpperCase[calls[m].provider], " [",
                                           calls[m].model, "]: ">> >>)

----------------------------------------------------------------------------
(* C14..C20: the Post-Processor *)

PrefixApplies == constraints.prefixEnabled /\ constraints.prefix # <<>>
SuffixApplies == constraints.suffixEnabled /\ constraints.suffix # <<>>

\* the title that came in, trimmed
TrimmedTitle == trim(rawData.title)

\* C14  Title budget: the title applyPostProcessing returns is never longer
\* than maxTitleChars plus, for a prefix that is applied, its length and
\* one space, and the same for a suffix; with neither applied it is never
\* longer than maxTitleChars.
C14_TitleBudget ==
    pc = "pp_done" =>
        Len(result.title) <= constraints.maxTitleChars
             + (IF PrefixApplies THEN Len(constraints.prefix) + 1 ELSE 0)
             + (IF SuffixApplies THEN Len(constraints.suffix) + 1 ELSE 0)

\* a title longer than maxTitleChars has been cut and both affixes added
C14_Witness ==
    /\ pc = "pp_done"
    /\ Len(TrimmedTitle) > constraints.maxTitleChars
    /\ PrefixApplies
    /\ SuffixApplies
    /\ Len(result.title) > constraints.maxTitleChars

\* the title returned is the title part with the affixes put around it
TitleIs(t) == result.title = applySuffix(applyPrefix(t, constraints), constraints)

\* C15  Title truncation, as stated: the title is trimmed first; a trimmed
\* title of at most maxTitleChars characters is kept as it is, a longer
\* one is cut to its first maxTitleChars characters.
C15_TruncatedToMax ==
    pc = "pp_done" =>
        TitleIs(IF Len(TrimmedTitle) <= constraints.maxTitleChars
                THEN TrimmedTitle
                ELSE substring(TrimmedTitle, constraints.maxTitleChars))

\* C15  Title truncation, amended: the title is trimmed first; a trimmed
\* title of at most maxTitleChars characters is kept as it is, a longer
\* one is cut to its first maxTitleChars - 1 characters and trimmed again.
C15_TruncatedBelowMax ==
    pc = "pp_done" =>
        TitleIs(IF Len(TrimmedTitle) <= constraints.maxTitleChars
                THEN TrimmedTitle
                ELSE trim(substring(TrimmedTitle, constraints.maxTitleChars - 1)))

\* a title is cut and the cut leaves white space at its end to trim
C15_Witness ==
    /\ pc = "pp_done"
    /\ Len(TrimmedTitle) > constraints.maxTitleChars
    /\ ~PrefixApplies
    /\ ~SuffixApplies
    /\ result.title # <<>>
    /\ Len(result.title) < constraints.maxTitleChars - 1

\* C16  Title prefix, as stated: a prefix that is enabled and not empty is
\* put, as it is, before the title with one space between; a prefix that
\* is disabled or empty puts nothing before the title.
C16_PrefixPrepended ==
    pc = "pp_done" =>
        LET t == truncateTitle(TrimmedTitle, constraints)
        IN  result.title = applySuffix(IF PrefixApplies
                                       THEN constraints.prefix \o <<" ">> \o t
                                       ELSE t, constraints)

\* C16  Title prefix, amended: a prefix that is enabled and not empty is
\* trimmed and put before the title with one space between (of a prefix
\* of white space the space alone is left); a prefix that is disabled or
\* empty puts nothing before the title.
C16_TrimmedPrefixPrepended ==
    pc = "pp_done" =>
        LET t == truncateTitle(TrimmedTitle, constraints)
        IN  result.title = applySuffix(IF PrefixApplies
                                       THEN trim(constraints.prefix) \o <<" ">> \o t
                                       ELSE t, constraints)

\* a prefix with white space around it has been put before a title
C16_Witness ==
    /\ pc = "pp_done"
    /\ PrefixApplies
    /\ trim(constraints.prefix) \notin { <<>>, constraints.prefix }
    /\ TrimmedTitle # <<>>
    /\ SubSeq(result.title, 1, 2) = <<"P", " ">>

\* C17  Title suffix, as stated: a suffix that is enabled and not empty is
\* put, as it is, after the title and its prefix with one space between;
\* a suffix that is disabled or empty puts nothing after the title.
C17_SuffixAppended ==
    pc = "pp_done" =>
        LET t == applyPrefix(truncateTitle(TrimmedTitle, constraints), constraints)
        IN  result.title = IF SuffixApplies
                           THEN t \o <<" ">> \o constraints.suffix
                           ELSE t

\* C17  Title suffix, amended: a suffix that is enabled and not empty is
\* trimmed and put after the title and its prefix with one space between
\* (of a suffix of white space the space alone is left); a suffix that is
\* disabled or empty puts nothing after the title.
C17_TrimmedSuffixAppended ==
    pc = "pp_done" =>
        LET t == applyPrefix(truncateTitle(TrimmedTitle, constraints), constraints)
        IN  result.title = IF SuffixApplies
                           THEN t \o <<" ">> \o trim(constraints.suffix)
                           ELSE t

\* a suffix with white space around it has been put after a prefixed title
C17_Witness ==
    /\ pc = "pp_done"
    /\ PrefixApplies
    /\ SuffixApplies
    /\ trim(constraints.suffix) \notin { <<>>, constraints.suffix }
    /\ TrimmedTitle # <<>>
    /\ SubSeq(result.title, Len(result.title) - 1, Len(result.title)) = <<" ", "P">>

\* C18  Keyword budget: the metadata a successful call returns never has
\* more keywords than constraints.keywordCount.
C18_KeywordBudget ==
    pc = "returned" => Len(result.keywords) <= constraints.keywordCount

\* a call has returned on a reply that held more keywords than allowed
C18_Witness ==
    /\ pc = "returned"
    /\ LET r == replies[Len(replies)]
           raw == rawContentOf(calls[Len(calls)].provider, r)
       IN  Len(JSONparse(cleanedJson(raw.value)).value.keywords) > constraints.keywordCount
    /\ Len(result.keywords) = constraints.keywordCount

\* the keywords that came in
InputKeywords == IF rawData.hasKeywords THEN rawData.keywords ELSE <<>>

\* String.prototype.toLowerCase over the letters of the keywords
toLowerCase(s) == [ j \in 1..Len(s) |-> IF s[j] = "X" THEN "x" ELSE s[j] ]

\* equal ignoring case and the white space around
SameKeyword(a, b) == toLowerCase(trim(a)) = toLowerCase(trim(b))

\* the keyword has the form the cleanup leaves
CleanKeyword(k) == k # <<>> /\ k = toLowerCase(trim(k))

\* ks can be had from the keywords that came in by leaving some out
\* and normalising the others
RECURSIVE InOrderOf(_, _)
InOrderOf(ks, from) ==
    IF ks = <<>> THEN TRUE
    ELSE IF from = <<>> THEN FALSE
    ELSE \/ SameKeyword(Head(ks), Head(from)) /\ InOrderOf(Tail(ks), Tail(from))
         \/ InOrderOf(ks, Tail(from))

\* the cleanup of a keyword list: normalised, empty ones dropped, the
\* first of equal ones kept
RECURSIVE cleanup(_, _)
cleanup(ks, seen) ==
    IF ks = <<>> THEN <<>>
    ELSE LET k == toLowerCase(trim(Head(ks)))
         IN  IF k = <<>> \/ k \in seen
             THEN cleanup(Tail(ks), seen)
             ELSE <<k>> \o cleanup(Tail(ks), seen \cup {k})

\* C19  Keyword truncation: of more keywords than keywordCount exactly
\* keywordCount are returned, in the order they came in, each one
\* lower-case and no two of them equal ignoring case.
C19_KeywordTruncation ==
    (pc = "pp_done" /\ Len(InputKeywords) > constraints.keywordCount) =>
        /\ Len(result.keywords) = constraints.keywordCount
        /\ InOrderOf(result.keywords, InputKeywords)
        /\ \A i \in 1..Len(result.keywords) :
              /\ result.keywords[i] = toLowerCase(result.keywords[i])
              /\ \A j \in 1..(i - 1) :
                    ~SameKeyword(result.keywords[i], result.keywords[j])

\* C20  Keyword cleanup: the keywords returned are the keywords that came
\* in, each lower-cased and trimmed, the empty ones dropped and of equal
\* ones the first kept, in first-seen order, and only then cut to
\* keywordCount; each one is clean and no two are equal ignoring case.
C20_KeywordCleanup ==
    pc = "pp_done" =>
        /\ result.keywords = substring(cleanup(InputKeywords, {}), constraints.keywordCount)
        /\ \A i \in 1..Len(result.keywords) : CleanKeyword(result.keywords[i])

----------------------------------------------------------------------------
(* C21..C30: normalisation of a reply, frame conditions, cancellation *)

\* C21  The Post-Processor never fails: whatever parsed data and
\* constraints applyPostProcessing is called with, also data without a
\* title or without keywords, it returns a metadata value and raises no
\* error.
C21_PostProcessorNeverFails ==
    /\ pc # "pp_thrown"
    /\ pc = "pp_done" => (result.kind = "object" /\ error = NoError)

\* the reply that has just come in
NewReply == replies'[Len(replies')]

\* the provider call resolved and the text it carries is empty or absent
EmptyText(r) ==
    /\ r.kind = "reply"
    /\ ok(r)
    /\ r.bodyJson
    /\ r.hasChoices
    /\ (~r.hasText \/ r.text = <<>>)

\* the step records the failure `message` of the current attempt and goes
\* on to the next credential of the plan entry
FailsAndMovesOn(message) ==
    /\ lastError' = failureMessage(step, message)
    /\ warnLog' = Append(warnLog, <<"Fallback triggered: ">> \o lastError')
    /\ pc' = "for_key"
    /\ keyIdx' = keyIdx + 1
    /\ stepIdx' = stepIdx
    /\ calls' = calls
    /\ result' = NoResult

\* C22  Empty response: when a provider call returns empty or absent
\* text, the attempt fails at once with "Empty AI response" (not with an
\* error of the parser), the failure is recorded and the call goes on to
\* the next credential.
C22_EmptyResponseFails ==
    [][ (pc = "await" /\ replies' # replies /\ EmptyText(NewReply))
            => FailsAndMovesOn("Empty AI response") ]_vars

\* an attempt got an empty text and the next attempt has been issued
C22_Witness ==
    \E n \in 1..Len(replies) :
        /\ EmptyText(replies[n])
        /\ Len(calls) > n
        /\ Failed(n)

\* the reply's text is a metadata object between markdown fence markers
Fenced(r) ==
    /\ r.kind = "reply"
    /\ ok(r)
    /\ r.hasText
    /\ Len(r.text) >= 3
    /\ Head(r.text) \in {FenceJson, Fence}
    /\ r.text[Len(r.text)] = Fence
    /\ \E j \in 2..(Len(r.text) - 1) :
          /\ r.text[j].t = "json"
          /\ r.text[j].v.kind = "object"
          /\ r.text[j].v.hasTitle
          /\ \A i \in 2..(Len(r.text) - 1) : i # j => r.text[i] = NewLine

\* the metadata object inside a fenced reply
FencedObject(r) == (CHOOSE tok \in { r.text[j] : j \in 1..Len(r.text) } : tok.t = "json").v

\* C23  Fence tolerance: a reply whose text is a valid metadata object
\* wrapped in markdown fence markers is a success for every provider of
\* the plan, gemini included: the call returns on it with the
\* post-processed object.
C23_FenceTolerance ==
    \A n \in 1..Len(replies) :
        Fenced(replies[n]) =>
            /\ n = Len(calls)
            /\ pc = "returned"
            /\ result = applyPostProcessing(FencedObject(replies[n]), constraints)

\* gemini answered in fences and the call has returned on that reply
C23_Witness ==
    /\ pc = "returned"
    /\ calls[Len(calls)].provider = "gemini"
    /\ Fenced(replies[Len(replies)])
    /\ result.title = <<"A">>

\* the reply's text is prose with one valid metadata object in it
ProseAround(r) ==
    /\ r.kind = "reply"
    /\ ok(r)
    /\ r.hasText
    /\ \E j \in 1..Len(r.text) : r.text[j] = Prose
    /\ \E j \in 1..Len(r.text) :
          /\ r.text[j].t = "json"
          /\ r.text[j].v.kind = "object"
          /\ r.text[j].v.hasTitle
          /\ \A i \in 1..Len(r.text) : i # j => r.text[i] \in {NewLine, Prose}

\* C24  Prose tolerance: a reply whose text is not parseable as it is but
\* holds a valid metadata object between its first `{` and its last `}`,
\* with prose before or after it, is a success: the call returns on it
\* with the post-processed object.
C24_ProseTolerance ==
    \A n \in 1..Len(replies) :
        ProseAround(replies[n]) =>
            /\ n = Len(calls)
            /\ pc = "returned"
            /\ result = applyPostProcessing(FencedObject(replies[n]), constraints)

\* the reply's text parses as an object that lacks title or lacks keywords
LacksRequiredField(r) ==
    /\ r.kind = "reply"
    /\ ok(r)
    /\ r.hasText
    /\ Len(r.text) = 1
    /\ r.text[1].t = "json"
    /\ r.text[1].v.kind = "object"
    /\ (~r.text[1].v.hasTitle \/ ~r.text[1].v.hasKeywords)

\* C25  Required fields: a reply that parses as an object without title,
\* or without keywords, is a failure of the attempt: it is recorded, the
\* call goes on to the next credential, and the reply is not returned as
\* a success.
C25_RequiredFields ==
    [][ (pc = "await" /\ replies' # replies /\ LacksRequiredField(NewReply))
            => /\ pc' = "for_key"
               /\ keyIdx' = keyIdx + 1
               /\ result' = NoResult
               /\ Len(warnLog') = Len(warnLog) + 1
               /\ lastError' = FailureOf(warnLog'[Len(warnLog')]) ]_vars

\* C26  Description follows the platform: the metadata a call returns
\* carries a description only when PLATFORM_FIELDS of the selected
\* platform has description = true; for Adobe Stock, Freepik and Vecteezy
\* it carries none, whatever the provider returned.
C26_DescriptionFollowsPlatform ==
    pc = "returned" =>
        (result.hasDescription => PLATFORM_FIELDS[constraints.selectedPlatform].description)

\* fetch resolved with a status outside 200..299
RejectedHttp(r) == r.kind = "reply" /\ ~ok(r)

\* C27  Rejected HTTP call: on the HTTP path a status outside 200..299
\* makes the attempt fail; the reason recorded is the error message of
\* the body when the body parses and carries one, otherwise the status
\* text; the body is never parsed as metadata.
C27_RejectedHttpCall ==
    [][ (pc = "await" /\ step.provider # "gemini" /\ replies' # replies
            /\ RejectedHttp(NewReply))
            => FailsAndMovesOn(IF NewReply.bodyJson /\ NewReply.errMessage # ""
                               THEN NewReply.errMessage
                               ELSE NewReply.statusText) ]_vars

\* C28  Read-only inputs: no step of a call changes settings.keys (no
\* key is added, removed, reordered or rewritten; the trimmed key is a
\* new string), and every request is made for the model that the plan
\* names at its entry: the plan is as it was at the start of the call.
C28_InputsReadOnly ==
    [][ /\ keys' = keys
        /\ \A n \in 1..Len(calls') :
              /\ calls'[n].provider = strategy[calls'[n].step].provider
              /\ calls'[n].model = strategy[calls'[n].step].model ]_vars

\* a call that skipped a blank key and sent a trimmed one has ended
C28_Witness ==
    /\ pc \in {"returned", "thrown"}
    /\ \E p \in AllPairs \ UsablePairs : Before(p, CallPair(Len(calls)))
    /\ calls[1].apiKey # keys[calls[1].provider][calls[1].key]

\* C29  No in-place mutation: applyPostProcessing leaves the object it is
\* given as it was, title and keywords included, and what it returns is a
\* value of its own, made of that object and the constraints.
C29_NoInPlaceMutation ==
    [][ (pc = "pp_call" /\ pc' = "pp_done")
            => /\ rawData' = rawData
               /\ result' = applyPostProcessing(rawData, constraints) ]_vars

\* the value returned has another title than the object given, which
\* still has its own
C29_Witness ==
    /\ pc = "pp_done"
    /\ PrefixApplies
    /\ result.title # rawData.title
    /\ rawData.title # trim(rawData.title)

\* C30  Cancellation: when the caller's deadline or cancellation signal
\* fires while a provider call is in flight, that call is aborted and
\* counted as a failure of the attempt: it is no longer in flight, the
\* failure is recorded and the call goes on to the next credential.
C30_CancellationAborts ==
    [][ (~cancelled /\ cancelled' /\ pc = "await")
            => /\ inflight' = {}
               /\ Len(warnLog') = Len(warnLog) + 1
               /\ lastError' = FailureOf(warnLog'[Len(warnLog')])
               /\ pc' = "for_key"
               /\ keyIdx' = keyIdx + 1 ]_vars

----------------------------------------------------------------------------
(* C31..C34: what the engine does beside the contract *)

\* the failure of the n-th call, as the catch block words it
FailureOfCall(n) ==
    failureMessage(strategy[calls[n].step],
                   tryAttempt(calls[n].provider, replies[n], constraints).message)

\* C31  On exhaustion the error thrown carries the failure of the last
\* attempt made and nothing else: "Engine stopped: " and that attempt's
\* provider, model and reason; every failed attempt overwrites the
\* failure remembered before it.
C31_OnlyLastFailureThrown ==
    /\ \A n \in 1..Len(replies) :
           (n = Len(replies) /\ pc # "returned") => lastError = FailureOfCall(n)
    /\ (pc = "thrown" /\ calls # <<>>) =>
           error = <<"Engine stopped: ">> \o FailureOfCall(Len(calls))

\* the call has thrown after two attempts that failed in different ways
C31_Witness ==
    /\ pc = "thrown"
    /\ Len(calls) >= 2
    /\ FailureOfCall(1) # FailureOfCall(Len(calls))
    /\ ~ContainsInOrder(error, << FailureOfCall(1) >>)

\* the stored key string of a (plan entry, credential) pair
KeyOf(p) == keys[strategy[p[1]].provider][p[2]]

\* C32  A credential that is empty or white space only is skipped: the
\* step that meets it issues no provider call and leaves the remembered
\* failure as it is, and the loop goes on with the next credential of the
\* same provider; no request is ever made with a blank credential.
C32_BlankCredentialSkipped ==
    [][ /\ (pc = "for_key" /\ keyIdx <= Len(stepKeys) /\ IsBlank(stepKeys[keyIdx])) =>
              /\ calls' = calls
              /\ lastError' = lastError
              /\ warnLog' = warnLog
              /\ stepIdx' = stepIdx
              /\ keyIdx' = keyIdx + 1
              /\ pc' = "for_key"
        /\ \A n \in 1..Len(calls') :
              ~IsBlank(KeyOf(<<calls'[n].step, calls'[n].key>>))
                 /\ calls'[n].apiKey # <<>> ]_vars

\* a request was made with the credential that follows a blank one
C32_Witness ==
    \E n \in 1..Len(calls) :
        /\ calls[n].key > 1
        /\ IsBlank(KeyOf(<<calls[n].step, calls[n].key - 1>>))

\* C33  No usable credential: when no provider of the plan has a
\* credential that is not blank, the call makes no provider call, does
\* not return, and ends by throwing an error whose text reports
\* "No active API keys found."
C33_NoUsableCredential ==
    /\ [](UsablePairs = {} =>
             /\ calls = <<>>
             /\ pc # "returned"
             /\ pc = "thrown" =>
                   error = <<"Engine stopped: ", "No active API keys found.">>)
    /\ (UsablePairs = {}) ~> (pc = "thrown")

\* the call has thrown with blank credentials stored and no call made
C33_Witness ==
    /\ pc = "thrown"
    /\ UsablePairs = {}
    /\ AllPairs # {}
    /\ calls = <<>>

\* C34  A provider that is in several plan entries (openai: gpt-4o-mini
\* and gpt-4o) has its credentials tried again at each entry: when every
\* attempt fails, the calls made are as many as the pairs of a plan entry
\* and a non-blank credential of its provider, and a credential that
\* failed with the earlier model is used with the later one.
C34_CredentialsTriedPerEntry ==
    pc = "thrown" =>
        /\ Len(calls) = Cardinality(UsablePairs)
        /\ \A m \in 1..Len(calls) :
              \A i \in (calls[m].step + 1)..Len(strategy) :
                  strategy[i].provider = calls[m].provider =>
                      \E n \in (m + 1)..Len(calls) :
                          /\ calls[n].step = i
                          /\ calls[n].key = calls[m].key
                          /\ calls[n].apiKey = calls[m].apiKey
                          /\ calls[n].model = strategy[i].model
                          /\ calls[n].model # calls[m].model

\* openai's credential failed with gpt-4o-mini and again with gpt-4o
C34_Witness ==
    /\ pc = "thrown"
    /\ \E m, n \in 1..Len(calls) :
          /\ calls[m].model = "gpt-4o-mini"
          /\ calls[n].model = "gpt-4o"
          /\ calls[m].key = calls[n].key

----------------------------------------------------------------------------
(* The App: the list of images, processSingle and processBatch *)

\* files uploaded over one session
MaxImages == 2

\* clicks on Generate SEO, Optimize All and Regenerate over one session
MaxClicks == 2

AIModels == { "gemini-3-flash-preview", "openai-gpt-4o" }

\* constraints.model.startsWith('gemini')
startsWithGemini(m) == m \in { "gemini-3-flash-preview", "gemini-3-pro-preview" }

NoMessage == <<>>

PendingMessage(m) ==
    <<"Model ", m, " integration is pending. Please use Gemini for visual analysis.">>

\* what analyzeStockImage throws
ErrMessages ==
    { <<"Empty AI response">>,
      <<"API_KEY_ERROR: Please select a valid Paid API Key in Settings.">> }

OptimizedImage(id) ==
    [ id |-> id, status |-> "pending", seoData |-> "undefined", error |-> NoMessage ]

idsOf(list) == [ j \in DOMAIN list |-> list[j].id ]

\* setImages(prev => prev.map(i => i.id === id ? {...i, status: 'processing'} : i))
markProcessing(list, id) ==
    [ j \in DOMAIN list |->
        IF list[j].id = id THEN [ list[j] EXCEPT !.status = "processing" ] ELSE list[j] ]

\* {...i, status: 'completed', seoData: result}
markCompleted(list, id) ==
    [ j \in DOMAIN list |->
        IF list[j].id = id
        THEN [ list[j] EXCEPT !.status = "completed", !.seoData = "result" ]
        ELSE list[j] ]

\* {...i, status: 'error', error: message}
markError(list, id, message) ==
    [ j \in DOMAIN list |->
        IF list[j].id = id
        THEN [ list[j] EXCEPT !.status = "error", !.error = message ]
        ELSE list[j] ]

\* a faulty variant of Begin: the model is not looked at
BeginAnyModel(list, id, m) ==
    [ images |-> markProcessing(list, id), started |-> TRUE ]

\* processSingle up to its first await: the image of a model that is not a
\* Gemini model is set to 'error' and the function returns
Begin(list, id, m) ==
    IF ~startsWithGemini(m)
    THEN [ images |-> markError(list, id, PendingMessage(m)), started |-> FALSE ]
    ELSE [ images |-> markProcessing(list, id), started |-> TRUE ]

\* a faulty variant of pendingOf: the completed images are kept
pendingOfAll(list) == list

\* images.filter(i => i.status === 'pending' || i.status === 'error' || i.status === 'processing')
pendingOf(list) ==
    SelectSeq(list, LAMBDA i : \/ i.status = "pending"
                               \/ i.status = "error"
                               \/ i.status = "processing")

\* for (const img of pending) await processSingle(img.id): the loop up to the
\* first processSingle that awaits; a processSingle that returns at once is
\* passed and the loop goes on in the same turn of the event loop
RECURSIVE batchLoop(_, _, _)
batchLoop(list, ids, m) ==
    IF ids = <<>>
    THEN [ images |-> list, awaiting |-> <<>>, rest |-> <<>>, passed |-> <<>> ]
    ELSE LET b == Begin(list, Head(ids), m)
         IN  IF b.started
             THEN [ images |-> b.images, awaiting |-> <<Head(ids)>>,
                    rest |-> Tail(ids), passed |-> <<>> ]
             ELSE LET l == batchLoop(b.images, Tail(ids), m)
                  IN  [ l EXCEPT !.passed = <<Head(ids)>> \o @ ]

\* one activation of processSingle that awaits
Run(n, id, byBatch) == [ n |-> n, id |-> id, pc |-> "reading", byBatch |-> byBatch ]

\* the App as it is mounted, with no call of analyzeImageWithAI under way
UIInit ==
    /\ UIIdle
    /\ cancelled = FALSE
    /\ image = 0
    /\ other = NoFrame
    /\ rawData = NoResult
    /\ keys \in KeyConfigs(AIProvider, 0)
    /\ constraints = DefaultConstraints
    /\ stepIdx = 1
    /\ keyIdx = 1
    /\ pc = "none"
    /\ lastError = <<"No active API keys found.">>
    /\ inflight = {}
    /\ calls = <<>>
    /\ replies = <<>>
    /\ warnLog = <<>>
    /\ result = NoResult
    /\ error = NoError

\* handleUpload: the new image is appended with status 'pending'
handleUpload ==
    /\ uploads < MaxImages
    /\ uploads' = uploads + 1
    /\ images' = Append(images, OptimizedImage(uploads'))
    /\ UNCHANGED <<status, model, batch, runs, clicks, engineVars>>

\* the AI Brain cards of the settings: the model is selected, and the effect
\* copies it into constraints.model
selectModel(m) ==
    /\ model' = m
    /\ UNCHANGED <<images, status, batch, runs, clicks, uploads, engineVars>>

\* the trash button of an image
removeImage(id) ==
    /\ \E j \in DOMAIN images : images[j].id = id
    /\ images' = SelectSeq(images, LAMBDA i : i.id # id)
    /\ UNCHANGED <<status, model, batch, runs, clicks, uploads, engineVars>>

clearAll ==
    /\ images' = <<>>
    /\ UNCHANGED <<status, model, batch, runs, clicks, uploads, engineVars>>

\* the Regenerate button of an image: processSingle(img.id)
Regenerate(id) ==
    /\ clicks < MaxClicks
    /\ \E j \in DOMAIN images : images[j].id = id
    /\ clicks' = clicks + 1
    /\ LET b == Begin(images, id, model)
       IN  /\ images' = b.images
           /\ runs' = IF b.started THEN runs \cup { Run(clicks', id, FALSE) } ELSE runs
    /\ UNCHANGED <<status, model, batch, uploads, engineVars>>

\* the Generate SEO and Optimize All buttons, disabled while the list is
\* empty or the status is ANALYZING
processBatch ==
    /\ clicks < MaxClicks
    /\ images # <<>>
    /\ status # "ANALYZING"
    /\ clicks' = clicks + 1
    /\ LET pending == idsOf(pendingOf(images))
           l       == batchLoop(images, pending, model)
       IN  /\ images' = l.images
           /\ runs' = runs \cup { Run(clicks', l.awaiting[j], TRUE) : j \in DOMAIN l.awaiting }
           /\ batch' = [ pc       |-> IF l.awaiting = <<>> THEN "idle" ELSE "running",
                         n        |-> clicks',
                         model    |-> model,
                         pending  |-> l.rest,
                         snapshot |-> pending,
                         started  |-> l.passed \o l.awaiting ]
           /\ status' = IF l.awaiting = <<>> THEN "COMPLETED" ELSE "ANALYZING"
    /\ UNCHANGED <<model, uploads, engineVars>>

\* the end of an activation of processSingle, list being the images after its
\* last setImages: an activation of the batch lets the loop of processBatch
\* go on, which starts the next image or sets the status to COMPLETED
Settle(r, list) ==
    IF r.byBatch
    THEN LET l == batchLoop(list, batch.pending, batch.model)
         IN  /\ images' = l.images
             /\ runs' = (runs \ {r})
                            \cup { Run(r.n, l.awaiting[j], TRUE) : j \in DOMAIN l.awaiting }
             /\ batch' = [ batch EXCEPT !.pc      = IF l.awaiting = <<>> THEN "idle" ELSE "running",
                                        !.pending = l.rest,
                                        !.started = @ \o l.passed \o l.awaiting ]
             /\ status' = IF l.awaiting = <<>> THEN "COMPLETED" ELSE status
    ELSE /\ images' = list
         /\ runs' = runs \ {r}
         /\ UNCHANGED <<status, batch>>

\* reader.onload: the promise resolves and analyzeStockImage is called
ReadLoads(r) ==
    /\ r.pc = "reading"
    /\ runs' = (runs \ {r}) \cup { [ r EXCEPT !.pc = "analyzing" ] }
    /\ UNCHANGED <<images, status, model, batch, clicks, uploads, engineVars>>

\* the read fails: the reader has no onerror and the promise has no reject,
\* so the promise is never settled and the activation never goes on
ReadFails(r) ==
    /\ r.pc = "reading"
    /\ runs' = (runs \ {r}) \cup { [ r EXCEPT !.pc = "hung" ] }
    /\ UNCHANGED <<images, status, model, batch, clicks, uploads, engineVars>>

\* analyzeStockImage returns the metadata
AnalysisReturns(r) ==
    /\ r.pc = "analyzing"
    /\ Settle(r, markCompleted(images, r.id))
    /\ UNCHANGED <<model, clicks, uploads, engineVars>>

\* analyzeStockImage throws: the catch block of processSingle
AnalysisThrows(r, message) ==
    /\ r.pc = "analyzing"
    /\ Settle(r, markError(images, r.id, message))
    /\ UNCHANGED <<model, clicks, uploads, engineVars>>

\* the events that settle what an activation of processSingle awaits
UISettles ==
    \E r \in runs :
        \/ ReadLoads(r)
        \/ ReadFails(r)
        \/ AnalysisReturns(r)
        \/ \E message \in ErrMessages : AnalysisThrows(r, message)

UINext ==
    \/ handleUpload
    \/ \E m \in AIModels : selectModel(m)
    \/ \E id \in 1..MaxImages : removeImage(id)
    \/ clearAll
    \/ \E id \in 1..MaxImages : Regenerate(id)
    \/ processBatch
    \/ UISettles

UISpec == UIInit /\ [][UINext]_vars

\* the reader fires load or error, and every request of the analysis settles
UIFairSpec == UISpec /\ WF_vars(UISettles)

----------------------------------------------------------------------------
(* C35..C39: the App *)

\* a click that calls processSingle: Regenerate, Generate SEO, Optimize All
Clicked == clicks' = clicks + 1

\* the activations that read the file or wait for analyzeStockImage
InFlight(id) == { r \in runs : r.id = id /\ r.pc \in {"reading", "analyzing"} }

\* C35: processSingle under a selected model that does not start with
\* 'gemini' sets the image to 'error' with the message of the pending
\* integration; no activation reads a file or calls analyzeStockImage for
\* it, and no image is put into 'processing'.  (A batch that finds no image
\* to process calls no processSingle.)
C35_NonGeminiModelRefused ==
    [][ (Clicked /\ ~startsWithGemini(model)) =>
            /\ runs' = runs
            /\ Len(images') = Len(images)
            /\ \A j \in DOMAIN images :
                   \/ images'[j] = images[j]
                   \/ images'[j] = [ images[j] EXCEPT !.status = "error",
                                                      !.error = PendingMessage(model) ]
            /\ (batch' = batch \/ batch'.snapshot # <<>>) =>
                   \E j \in DOMAIN images :
                       /\ images'[j].status = "error"
                       /\ images'[j].error = PendingMessage(model)
            /\ \A j \in DOMAIN images :
                   images'[j].status = "processing" => images[j].status = "processing"
      ]_vars

C35_Witness ==
    /\ runs = {}
    /\ clicks > 0
    /\ ~startsWithGemini(model)
    /\ \E j \in DOMAIN images :
           /\ images[j].status = "error"
           /\ images[j].error = PendingMessage(model)

\* the image of this id is in the list with status 'processing'
Processing(id) == \E j \in DOMAIN images : images[j].id = id /\ images[j].status = "processing"

\* C36: every image put into 'processing' later leaves it, for 'completed'
\* or 'error', and a batch that set the status to ANALYZING later sets it to
\* COMPLETED.
C36_ProcessingSettles ==
    /\ \A id \in 1..MaxImages : Processing(id) ~> ~Processing(id)
    /\ (status = "ANALYZING") ~> (status = "COMPLETED")

\* C37: an image with status 'completed' has seoData set and no error
\* message, and an image with status 'pending' has neither.
C37_StatusMatchesFields ==
    \A j \in DOMAIN images :
        /\ images[j].status = "completed" =>
               images[j].seoData = "result" /\ images[j].error = NoMessage
        /\ images[j].status = "pending" =>
               images[j].seoData = "undefined" /\ images[j].error = NoMessage

\* C38: for every image at most one activation of processSingle is in
\* flight, whatever the interleaving of the batch and of Regenerate.
C38_OneAnalysisPerImage ==
    \A id \in 1..MaxImages : Cardinality(InFlight(id)) <= 1

\* the place of an image in the list
PlaceOf(id) == CHOOSE j \in DOMAIN images : images[j].id = id

\* the activations of processSingle called by processBatch that have not ended
BatchRuns == { r \in runs : r.byBatch }

\* C39: processBatch takes the images that are not 'completed' when it is
\* clicked, in the order of the list; it calls processSingle for them in
\* that order, one at a time, the next one only when the one before has
\* ended; an image that was 'completed' at the click is not among them.
C39_BatchInListOrder ==
    /\ [][ batch'.n # batch.n =>
               /\ \A j \in DOMAIN images :
                      images[j].status # "completed"
                          <=> \E k \in DOMAIN batch'.snapshot :
                                  batch'.snapshot[k] = images[j].id
               /\ \A k \in DOMAIN batch'.snapshot :
                      \E j \in DOMAIN images : images[j].id = batch'.snapshot[k]
               /\ \A k1, k2 \in DOMAIN batch'.snapshot :
                      k1 < k2 => PlaceOf(batch'.snapshot[k1]) < PlaceOf(batch'.snapshot[k2])
               /\ BatchRuns = {}
         ]_vars
    /\ [][ (batch'.n = batch.n /\ batch'.started # batch.started) =>
               /\ Len(batch'.started) = Len(batch.started) + 1
               /\ \E r \in BatchRuns : r.pc = "analyzing" /\ r \notin runs'
         ]_vars
    /\ [] /\ Len(batch.started) <= Len(batch.snapshot)
          /\ \A k \in DOMAIN batch.started : batch.started[k] = batch.snapshot[k]
          /\ Cardinality(BatchRuns) <= 1
          /\ \A r \in BatchRuns :
                 /\ batch.started # <<>>
                 /\ r.id = batch.started[Len(batch.started)]
          /\ status = "COMPLETED" => batch.started = batch.snapshot /\ BatchRuns = {}

C39_Witness ==
    /\ status = "COMPLETED"
    /\ startsWithGemini(batch.model)
    /\ Len(batch.started) = 2
    /\ Len(images) = 2
    /\ \A j \in DOMAIN images : images[j].status \in {"completed", "error"}

====
